---- MODULE Spec2Model ----
(***************************************************************************)
(* Schema reconciliation of sqlite_orm's storage_t: schema_status,         *)
(* sync_schema, sync_schema_simulate, backup_table, drop_create_with_loss  *)
(* and the DDL they issue, over a small relational database.               *)
(***************************************************************************)
EXTENDS Integers, Sequences, FiniteSets, TLC

VARIABLES
    storage,              \* impl: the declared tables, in declaration order
    dropColumnSupported,  \* the build has SQLITE_VERSION_NUMBER >= 3035000
    db,                   \* live database: table name -> [columns, rows]
    pc,                   \* "idle" | "sync_table" | "exec" | "done" | "error"
    mode,                 \* "none" | "sync" | "simulate": the call in progress or last finished
    preserve,             \* the call's preserve argument
    idx,                  \* position of for_each in storage
    stmts,                \* statements of the current table still to execute
    last,                 \* what schema_status/sync_table decided for the current table
    result,               \* std::map<std::string, sync_schema_result>
    log,                  \* statements executed by the current call, in order
    err,                  \* "none" | "db_error" | "introspection"
    startDb,              \* db when the current call started
    prev,                 \* summary of the call before the current one
    calls,                \* number of calls made
    migrations,           \* std::map<migration_key, migration_t>
    user_version,         \* PRAGMA user_version of the database
    migrateCall           \* the last migrate_to call: its argument and what it did

vars == <<storage, dropColumnSupported, db, pc, mode, preserve, idx, stmts, last,
          result, log, err, startDb, prev, calls, migrations, user_version,
          migrateCall>>

\* ---------------------------------------------------------------- bounds
MaxRows == 1
MaxBackups == 2
MaxCalls == 2
MaxVersion == 2
MaxMigrations == 2

\* ------------------------------------------------- sync_schema_result
already_in_sync == "already_in_sync"
new_table_created == "new_table_created"
new_columns_added == "new_columns_added"
old_columns_removed == "old_columns_removed"
new_columns_added_and_old_columns_removed == "new_columns_added_and_old_columns_removed"
dropped_and_recreated == "dropped_and_recreated"

\* ------------------------------------------------------ declared schema
\* A column of make_table: name, printed type, is_not_null(), default_value(),
\* primary-key ordinal and the generated-always storage type.
Column(n, ty, nn, dflt, pk, gen) ==
    [name |-> n, type |-> ty, notnull |-> nn, dflt_value |-> dflt, pk |-> pk,
     generated |-> gen]

Range(s) == {s[i] : i \in 1..Len(s)}

Names(cols) == {cols[i].name : i \in 1..Len(cols)}

ColumnNamed(cols, n) == cols[CHOOSE i \in 1..Len(cols) : cols[i].name = n]

\* table.get_table_info(): the declared columns in the shape of table_xinfo.
get_table_info(table) ==
    [i \in 1..Len(table.columns) |->
        LET c == table.columns[i]
        IN [name |-> c.name, type |-> c.type, notnull |-> c.notnull,
            dflt_value |-> c.dflt_value, pk |-> c.pk,
            hidden |-> IF c.generated = "none" THEN 0 ELSE 1]]

\* table.find_column_generated_storage_type(name): "none" stands for nullptr.
find_column_generated_storage_type(table, name) ==
    ColumnNamed(table.columns, name).generated

\* ------------------------------------------------------- live database
table_exists(d, tableName) == tableName \in DOMAIN d

\* pragma.table_xinfo(name): empty when the table does not exist.
table_xinfo(d, tableName) ==
    IF tableName \in DOMAIN d THEN d[tableName].columns ELSE <<>>

\* The table_xinfo row SQLite reports for a column created from a declaration.
LiveColumn(c) ==
    [name |-> c.name, type |-> c.type, notnull |-> c.notnull,
     dflt_value |-> c.dflt_value, pk |-> c.pk,
     hidden |-> CASE c.generated = "virtual" -> 2
                  [] c.generated = "stored" -> 3
                  [] OTHER -> 0]

LiveColumns(cols) == [i \in 1..Len(cols) |-> LiveColumn(cols[i])]

\* ------------------------------------------------------ diff classifier
\* A column present on both sides is equal when type, nullability, presence of a
\* default and primary-key membership agree.
ColumnsAreEqual(dbColumnInfo, storageColumnInfo) ==
    /\ dbColumnInfo.type = storageColumnInfo.type
    /\ dbColumnInfo.notnull = storageColumnInfo.notnull
    /\ (dbColumnInfo.dflt_value # "") = (storageColumnInfo.dflt_value # "")
    /\ (dbColumnInfo.pk # 0) = (storageColumnInfo.pk # 0)

\* calculate_remove_add_columns(columnsToAdd, storageTableInfo, dbTableInfo):
\* returns notEqual, fills columnsToAdd and leaves in dbTableInfo the columns that
\* have no storage counterpart.
calculate_remove_add_columns(storageTableInfo, dbTableInfo) ==
    [notEqual |->
        \E i \in 1..Len(storageTableInfo), j \in 1..Len(dbTableInfo) :
            /\ storageTableInfo[i].name = dbTableInfo[j].name
            /\ ~ColumnsAreEqual(dbTableInfo[j], storageTableInfo[i]),
     columnsToAdd |->
        SelectSeq(storageTableInfo, LAMBDA c : c.name \notin Names(dbTableInfo)),
     dbTableInfo |->
        SelectSeq(dbTableInfo, LAMBDA c : c.name \notin Names(storageTableInfo))]

\* Names of the columns present on both sides that are not equal.
IncompatibleNames(storageTableInfo, dbTableInfo) ==
    {c.name : c \in {x \in Range(storageTableInfo) :
        \E j \in 1..Len(dbTableInfo) :
            /\ dbTableInfo[j].name = x.name
            /\ ~ColumnsAreEqual(dbTableInfo[j], x)}}

\* ------------------------------------------------------- schema_status
\* Mutant: the branch for builds without DROP COLUMN is missing.
ExcessColumnsAlwaysRemoved(p) ==
    [res |-> old_columns_removed, gottaCreateTable |-> FALSE]

\* Mutant: preserve is not looked at.
ExcessColumnsIgnoringPreserve(p) ==
    IF dropColumnSupported
    THEN [res |-> old_columns_removed, gottaCreateTable |-> FALSE]
    ELSE [res |-> already_in_sync, gottaCreateTable |-> TRUE]

\* Mutant: under preserve the excess columns are left alone and nothing is reported.
ExcessColumnsKeptUnderPreserve(p) ==
    IF ~p
    THEN IF dropColumnSupported
         THEN [res |-> old_columns_removed, gottaCreateTable |-> FALSE]
         ELSE [res |-> already_in_sync, gottaCreateTable |-> TRUE]
    ELSE [res |-> already_in_sync, gottaCreateTable |-> FALSE]

\* Excess columns in the database and nothing unequal: drop them in place when
\* the build can, keep the data when preserve asks for it, else recreate.
ExcessColumnsStatus(p) ==
    IF ~p
    THEN IF dropColumnSupported
         THEN [res |-> old_columns_removed, gottaCreateTable |-> FALSE]
         ELSE [res |-> already_in_sync, gottaCreateTable |-> TRUE]
    ELSE [res |-> old_columns_removed, gottaCreateTable |-> FALSE]

\* Mutant: only a stored generated column breaks the loop.
ColumnBlocksAddOnlyStored(tImpl, columnPointer) ==
    IF find_column_generated_storage_type(tImpl, columnPointer.name) = "stored"
    THEN "stored" ELSE "no"

\* Mutant: every generated column breaks the loop, a virtual one too.
ColumnBlocksAddAnyGenerated(tImpl, columnPointer) ==
    IF find_column_generated_storage_type(tImpl, columnPointer.name) # "none"
    THEN "stored"
    ELSE IF columnPointer.notnull /\ columnPointer.dflt_value = ""
         THEN "notnull" ELSE "no"

\* One round of the loop over columnsToAdd: "stored" and "notnull" break the loop
\* with gottaCreateTable set, "no" goes on to the next column.
ColumnBlocksAdd(tImpl, columnPointer) ==
    LET generatedStorageTypePointer ==
            find_column_generated_storage_type(tImpl, columnPointer.name)
    IN IF generatedStorageTypePointer # "none"
       THEN IF generatedStorageTypePointer = "stored" THEN "stored" ELSE "no"
       ELSE IF columnPointer.notnull /\ columnPointer.dflt_value = ""
            THEN "notnull" ELSE "no"

\* Mutant: only the first column to add is examined.
ScanFirstColumnToAdd(tImpl, columnsToAdd, i) ==
    IF i > Len(columnsToAdd) THEN "no" ELSE ColumnBlocksAdd(tImpl, columnsToAdd[i])

\* The loop over columnsToAdd: the reason of the first column that breaks it.
RECURSIVE ScanColumnsToAdd(_, _, _)
ScanColumnsToAdd(tImpl, columnsToAdd, i) ==
    IF i > Len(columnsToAdd) THEN "no"
    ELSE LET why == ColumnBlocksAdd(tImpl, columnsToAdd[i])
         IN IF why # "no" THEN why ELSE ScanColumnsToAdd(tImpl, columnsToAdd, i + 1)

\* Mutant: *attempt_to_preserve is cleared whatever broke the loop.
AttemptDroppedAfterBreak(why) == FALSE

\* Mutant: *attempt_to_preserve is left as it was set on entry.
AttemptKept(why) == TRUE

\* *attempt_to_preserve after the loop broke for the given reason.
AttemptAfterBreak(why) == why # "notnull"

\* Mutant: the value calculate_remove_add_columns returns is dropped.
GottaCreateIgnored(notEqual) == FALSE

\* if(calculate_remove_add_columns(...)) gottaCreateTable = true;
GottaCreateAfterCompare(notEqual) == notEqual

\* Mutant: hidden columns of the database are not erased with their storage
\* counterpart and count as excess.
ExcessColumnsWithHidden(dbTableInfo, calc) ==
    SelectSeq(dbTableInfo,
              LAMBDA c : c.hidden # 0 \/ c.name \in Names(calc.dbTableInfo))

\* Mutant: the test sees the columns as read from the database.
ExcessColumnsNotErased(dbTableInfo, calc) == dbTableInfo

\* dbTableInfo as the test !dbTableInfo.empty() sees it: what is left after
\* calculate_remove_add_columns erased the columns that have a storage counterpart.
ExcessColumns(dbTableInfo, calc) == calc.dbTableInfo

\* Mutant: res is overwritten without looking at what it was.
StatusAfterAddForgetsRemoval(res) == new_columns_added

\* res once every column to add went through the loop: old_columns_removed becomes
\* new_columns_added_and_old_columns_removed, anything else new_columns_added.
StatusAfterAdd(res) ==
    IF res = old_columns_removed
    THEN new_columns_added_and_old_columns_removed
    ELSE new_columns_added

\* The branch of schema_status for a table that exists.
ExistingTableStatus(tImpl, d, p) ==
    LET dbTableInfo == table_xinfo(d, tImpl.name)
        storageTableInfo == get_table_info(tImpl)
        calc == calculate_remove_add_columns(storageTableInfo, dbTableInfo)
        columnsToAdd == calc.columnsToAdd
        gottaCreateTable0 == GottaCreateAfterCompare(calc.notEqual)
        excess == IF ~gottaCreateTable0 /\ ExcessColumns(dbTableInfo, calc) # <<>>
                  THEN ExcessColumnsStatus(p)
                  ELSE [res |-> already_in_sync, gottaCreateTable |-> FALSE]
        gottaCreateTable1 == gottaCreateTable0 \/ excess.gottaCreateTable
        why == ScanColumnsToAdd(tImpl, columnsToAdd, 1)
    IN IF gottaCreateTable1
       THEN [res |-> dropped_and_recreated, attempt_to_preserve |-> TRUE]
       ELSE IF columnsToAdd # <<>>
            THEN IF why = "no"
                 THEN [res |-> StatusAfterAdd(excess.res),
                       attempt_to_preserve |-> TRUE]
                 ELSE [res |-> dropped_and_recreated,
                       attempt_to_preserve |-> AttemptAfterBreak(why)]
            ELSE [res |-> IF excess.res # old_columns_removed
                          THEN already_in_sync ELSE excess.res,
                  attempt_to_preserve |-> TRUE]

\* Mutant: the table is compared without asking whether it exists.
schema_status_without_exists(tImpl, d, p) == ExistingTableStatus(tImpl, d, p)

\* schema_status(tImpl, db, preserve, attempt_to_preserve): the result and the
\* value left in *attempt_to_preserve.
schema_status(tImpl, d, p) ==
    IF ~table_exists(d, tImpl.name)
    THEN [res |-> new_table_created, attempt_to_preserve |-> TRUE]
    ELSE ExistingTableStatus(tImpl, d, p)

\* ------------------------------------------------------------ statements
CreateTableStmt(tableName, tableImpl) ==
    [op |-> "create_table", table |-> tableName, columns |-> tableImpl.columns]

\* Mutant: columnsToIgnore is not passed on.
CopyTableStmtIgnoringNothing(sourceTableName, destinationTableName, columnsToIgnore) ==
    [op |-> "copy_table", table |-> sourceTableName, to |-> destinationTableName,
     ignore |-> {}]

CopyTableStmt(sourceTableName, destinationTableName, columnsToIgnore) ==
    [op |-> "copy_table", table |-> sourceTableName, to |-> destinationTableName,
     ignore |-> columnsToIgnore]

DropTableStmt(tableName) == [op |-> "drop_table", table |-> tableName]

RenameTableStmt(from, to) == [op |-> "rename_table", table |-> from, to |-> to]

AddColumnStmt(tableName, column) ==
    [op |-> "add_column", table |-> tableName, column |-> column]

DropColumnStmt(tableName, columnName) ==
    [op |-> "drop_column", table |-> tableName, column |-> columnName]

\* create_table: one CREATE TABLE with the declared columns.
create_table(tableName, tableImpl) == <<CreateTableStmt(tableName, tableImpl)>>

\* Mutant: CREATE TABLE comes before DROP TABLE.
create_before_drop(tImpl) ==
    create_table(tImpl.name, tImpl) \o <<DropTableStmt(tImpl.name)>>

\* Mutant: the table is dropped and not created again.
drop_without_create(tImpl) == <<DropTableStmt(tImpl.name)>>

\* drop_create_with_loss: DROP TABLE, then CREATE TABLE.
drop_create_with_loss(tImpl) ==
    <<DropTableStmt(tImpl.name)>> \o create_table(tImpl.name, tImpl)

\* Mutant: the body of the do-while runs once, whatever table_exists says.
AnotherBackupTableNameOnce(d, backupTableName, suffix) ==
    backupTableName \o ToString(suffix)

\* The do-while of backup_table: the first name backupTableName + suffix,
\* suffix = 1, 2, ..., that is not a table.
RECURSIVE AnotherBackupTableName(_, _, _)
AnotherBackupTableName(d, backupTableName, suffix) ==
    LET anotherBackupTableName == backupTableName \o ToString(suffix)
    IN IF ~table_exists(d, anotherBackupTableName)
       THEN anotherBackupTableName
       ELSE AnotherBackupTableName(d, backupTableName, suffix + 1)

BackupTableName(d, tableName) ==
    LET backupTableName == tableName \o "_backup"
    IN IF table_exists(d, backupTableName)
       THEN AnotherBackupTableName(d, backupTableName, 1)
       ELSE backupTableName

\* Mutant: the table left under <table>_backup is dropped before the backup is made.
BackupStatementsDroppingOldBackup(tableImpl, backupTableName, columnsToIgnore) ==
    <<DropTableStmt(tableImpl.name \o "_backup")>>
    \o create_table(backupTableName, tableImpl)
    \o <<CopyTableStmt(tableImpl.name, backupTableName, columnsToIgnore)>>
    \o <<DropTableStmt(tableImpl.name)>>
    \o <<RenameTableStmt(backupTableName, tableImpl.name)>>

\* Mutant: the rows are copied after the drop and the rename.
BackupStatementsCopyLast(tableImpl, backupTableName, columnsToIgnore) ==
    create_table(backupTableName, tableImpl)
    \o <<DropTableStmt(tableImpl.name)>>
    \o <<RenameTableStmt(backupTableName, tableImpl.name)>>
    \o <<CopyTableStmt(tableImpl.name, backupTableName, columnsToIgnore)>>

\* Mutant: the rows are not copied into the backup table.
BackupStatementsNoCopy(tableImpl, backupTableName, columnsToIgnore) ==
    create_table(backupTableName, tableImpl)
    \o <<DropTableStmt(tableImpl.name)>>
    \o <<RenameTableStmt(backupTableName, tableImpl.name)>>

\* Mutant: the original is dropped before its rows are copied.
BackupStatementsDropFirst(tableImpl, backupTableName, columnsToIgnore) ==
    create_table(backupTableName, tableImpl)
    \o <<DropTableStmt(tableImpl.name)>>
    \o <<CopyTableStmt(tableImpl.name, backupTableName, columnsToIgnore)>>
    \o <<RenameTableStmt(backupTableName, tableImpl.name)>>

\* Mutant: the original is dropped before the backup table is created.
BackupStatementsDropOriginalFirst(tableImpl, backupTableName, columnsToIgnore) ==
    <<DropTableStmt(tableImpl.name)>>
    \o create_table(backupTableName, tableImpl)
    \o <<CopyTableStmt(tableImpl.name, backupTableName, columnsToIgnore)>>
    \o <<RenameTableStmt(backupTableName, tableImpl.name)>>

\* Mutant: the backup is not renamed to the original name.
BackupStatementsNoRename(tableImpl, backupTableName, columnsToIgnore) ==
    create_table(backupTableName, tableImpl)
    \o <<CopyTableStmt(tableImpl.name, backupTableName, columnsToIgnore)>>
    \o <<DropTableStmt(tableImpl.name)>>

\* The four statements of backup_table once the name is chosen.
BackupStatements(tableImpl, backupTableName, columnsToIgnore) ==
    create_table(backupTableName, tableImpl)
    \o <<CopyTableStmt(tableImpl.name, backupTableName, columnsToIgnore)>>
    \o <<DropTableStmt(tableImpl.name)>>
    \o <<RenameTableStmt(backupTableName, tableImpl.name)>>

backup_table(d, tableImpl, columnsToIgnore) ==
    BackupStatements(tableImpl, BackupTableName(d, tableImpl.name), columnsToIgnore)

\* ----------------------------------------------------------- action plan
Create == [kind |-> "Create", columns |-> {}]
AddColumns(names) == [kind |-> "AddColumns", columns |-> names]
DropColumns(names) == [kind |-> "DropColumns", columns |-> names]
RecreateWithLoss == [kind |-> "RecreateWithLoss", columns |-> {}]
RecreateWithBackup(ignore) == [kind |-> "RecreateWithBackup", columns |-> ignore]

\* The columns of cols, in order, whose name is in names.
Pick(cols, names) == SelectSeq(cols, LAMBDA c : c.name \in names)

\* sync_table for a table: the plan that carries out what schema_status reports.
ActionPlan(tImpl, d, p) ==
    LET schema_stat == schema_status(tImpl, d, p)
        storageTableInfo == get_table_info(tImpl)
        dbTableInfo == table_xinfo(d, tImpl.name)
        calc == calculate_remove_add_columns(storageTableInfo, dbTableInfo)
        toAdd == Names(calc.columnsToAdd)
        extraneous == Names(calc.dbTableInfo)
        incompatible == IncompatibleNames(storageTableInfo, dbTableInfo)
        removal == IF p THEN RecreateWithBackup(extraneous) ELSE DropColumns(extraneous)
    IN CASE schema_stat.res = already_in_sync -> <<>>
         [] schema_stat.res = new_table_created -> <<Create>>
         [] schema_stat.res = old_columns_removed -> <<removal>>
         [] schema_stat.res = new_columns_added -> <<AddColumns(toAdd)>>
         [] schema_stat.res = new_columns_added_and_old_columns_removed ->
                <<removal, AddColumns(toAdd)>>
         [] schema_stat.res = dropped_and_recreated ->
                IF p /\ schema_stat.attempt_to_preserve
                THEN <<RecreateWithBackup(extraneous \cup incompatible)>>
                ELSE <<RecreateWithLoss>>

\* The statements of one plan item, in the order the executor issues them.
Statements(tImpl, d, item) ==
    CASE item.kind = "Create" -> create_table(tImpl.name, tImpl)
      [] item.kind = "AddColumns" ->
            LET cols == Pick(tImpl.columns, item.columns)
            IN [i \in 1..Len(cols) |-> AddColumnStmt(tImpl.name, cols[i])]
      [] item.kind = "DropColumns" ->
            LET cols == Pick(table_xinfo(d, tImpl.name), item.columns)
            IN [i \in 1..Len(cols) |-> DropColumnStmt(tImpl.name, cols[i].name)]
      [] item.kind = "RecreateWithLoss" -> drop_create_with_loss(tImpl)
      [] item.kind = "RecreateWithBackup" -> backup_table(d, tImpl, item.columns)

RECURSIVE PlanStatements(_, _, _)
PlanStatements(tImpl, d, plan) ==
    IF plan = <<>> THEN <<>>
    ELSE Statements(tImpl, d, Head(plan)) \o PlanStatements(tImpl, d, Tail(plan))

\* ------------------------------------------------- database statements
\* copy_table: the columns both tables have, without the ignored ones and without
\* generated columns.
CopiedColumns(d, s) ==
    {c.name : c \in {x \in Range(d[s.to].columns) :
        /\ x.hidden = 0
        /\ x.name \notin s.ignore
        /\ \E y \in Range(d[s.table].columns) : y.name = x.name /\ y.hidden = 0}}

\* A destination column that gets no value from an INSERT that does not list it.
NeedsValue(c) == c.notnull /\ c.dflt_value = "" /\ c.hidden = 0

\* Whether the database accepts the statement in state d.
Accepts(d, s) ==
    CASE s.op = "create_table" -> s.table \notin DOMAIN d /\ s.columns # <<>>
      [] s.op = "drop_table" -> s.table \in DOMAIN d
      [] s.op = "rename_table" -> s.table \in DOMAIN d /\ s.to \notin DOMAIN d
      [] s.op = "add_column" ->
            /\ s.table \in DOMAIN d
            /\ s.column.name \notin Names(d[s.table].columns)
            /\ s.column.pk = 0
            /\ s.column.generated # "stored"
            /\ ~(s.column.generated = "none" /\ s.column.notnull
                 /\ s.column.dflt_value = "")
      [] s.op = "drop_column" ->
            /\ s.table \in DOMAIN d
            /\ s.column \in Names(d[s.table].columns)
            /\ ColumnNamed(d[s.table].columns, s.column).pk = 0
            /\ Len(d[s.table].columns) > 1
      [] s.op = "copy_table" ->
            /\ s.table \in DOMAIN d
            /\ s.to \in DOMAIN d
            /\ \/ d[s.table].rows = <<>>
               \/ \A c \in Range(d[s.to].columns) :
                    NeedsValue(c) => c.name \in CopiedColumns(d, s)

Without(d, tableName) == [n \in DOMAIN d \ {tableName} |-> d[n]]

\* A row of the destination: the copied values, 0 (NULL, default or computed) in
\* every other column.
CopiedRow(row, cols, copied) ==
    [n \in Names(cols) |-> IF n \in copied THEN row[n] ELSE 0]

\* The database after it executed the statement.
Execute(d, s) ==
    CASE s.op = "create_table" ->
            (s.table :> [columns |-> LiveColumns(s.columns), rows |-> <<>>]) @@ d
      [] s.op = "drop_table" -> Without(d, s.table)
      [] s.op = "rename_table" -> (s.to :> d[s.table]) @@ Without(d, s.table)
      [] s.op = "add_column" ->
            LET t == d[s.table]
                cols == Append(t.columns, LiveColumn(s.column))
            IN [d EXCEPT ![s.table] =
                    [columns |-> cols,
                     rows |-> [i \in 1..Len(t.rows) |->
                        [n \in Names(cols) |->
                            IF n = s.column.name THEN 0 ELSE t.rows[i][n]]]]]
      [] s.op = "drop_column" ->
            LET t == d[s.table]
                cols == SelectSeq(t.columns, LAMBDA c : c.name # s.column)
            IN [d EXCEPT ![s.table] =
                    [columns |-> cols,
                     rows |-> [i \in 1..Len(t.rows) |->
                        [n \in Names(cols) |-> t.rows[i][n]]]]]
      [] s.op = "copy_table" ->
            LET src == d[s.table]
                dst == d[s.to]
                copied == CopiedColumns(d, s)
            IN [d EXCEPT ![s.to].rows =
                    dst.rows \o [i \in 1..Len(src.rows) |->
                                    CopiedRow(src.rows[i], dst.columns, copied)]]

\* ------------------------------------------------------------- inputs
IdColumn == Column("id", "INTEGER", TRUE, "", 1, "none")

Kind(k, n) ==
    CASE k = "plain" -> Column(n, "INTEGER", FALSE, "", 0, "none")
      [] k = "default" -> Column(n, "INTEGER", TRUE, "0", 0, "none")
      [] k = "notnull" -> Column(n, "INTEGER", TRUE, "", 0, "none")
      [] k = "virtual" -> Column(n, "INTEGER", FALSE, "", 0, "virtual")
      [] k = "stored" -> Column(n, "INTEGER", FALSE, "", 0, "stored")

AKinds == {"plain", "default", "notnull", "virtual", "stored"}

\* Two columns to add, one after the other: the pairs that tell the order of the
\* loop over columnsToAdd.
ABKinds ==
    {<<ka, kb>> : ka \in {"plain", "notnull", "stored"}, kb \in {"notnull", "stored"}}
    \cup {<<"virtual", "default">>}

\* Declared column lists of table t: id, then optionally a, then optionally b.
DeclaredColumnLists ==
    {<<IdColumn>>}
    \cup {<<IdColumn, Kind(k, "a")>> : k \in AKinds}
    \cup {<<IdColumn, Kind(k[1], "a"), Kind(k[2], "b")>> : k \in ABKinds}

\* Live versions of id that differ from the declaration in one property.
ChangedIdColumns ==
    LET same == LiveColumn(IdColumn)
    IN {[same EXCEPT !.type = "TEXT"], [same EXCEPT !.notnull = FALSE],
        [same EXCEPT !.dflt_value = "0"], [same EXCEPT !.pk = 0]}

ColumnC == LiveColumn(Kind("plain", "c"))

\* Live column lists of table t: id, optionally a, optionally the undeclared c.
LiveColumnLists ==
    {<<LiveColumn(IdColumn)>> \o a \o c :
        a \in {<<>>} \cup {<<LiveColumn(Kind(k, "a"))>> : k \in AKinds},
        c \in {<<>>, <<ColumnC>>}}
    \cup {<<i>> \o r : i \in ChangedIdColumns,
                       r \in {<<>>, <<LiveColumn(Kind("plain", "a")), ColumnC>>}}

\* n rows over the columns; row i holds the value i in every column.
Rows(cols, n) == [i \in 1..n |-> [c \in Names(cols) |-> i]]

LiveTables ==
    {[columns |-> cols, rows |-> Rows(cols, n)] :
        cols \in LiveColumnLists, n \in 0..MaxRows}

\* Tables left behind under the backup names of t.
BackupNames(k) ==
    (IF k > 0 THEN {"t_backup"} ELSE {})
    \cup {"t_backup" \o ToString(i) : i \in 1..(k - 1)}

LeftOver == [columns |-> <<LiveColumn(IdColumn)>>, rows |-> Rows(<<IdColumn>>, 1)]

TableU == [name |-> "u", columns |-> <<IdColumn, Kind("plain", "a")>>]

NoLast ==
    [table |-> "", existed |-> FALSE, live |-> <<>>, tables |-> {}, res |-> "",
     attempt_to_preserve |-> TRUE, plan |-> <<>>]

NoCall ==
    [mode |-> "none", preserve |-> FALSE, pc |-> "idle", result |-> <<>>,
     acted |-> FALSE]

\* No migrate_to call was made yet.
NoMigrate == [to |-> 0, currentVersion |-> 0, invoked |-> <<>>, err |-> "idle"]

Init ==
    /\ migrations = <<>>
    /\ user_version = 0
    /\ migrateCall = NoMigrate
    /\ \E cols \in DeclaredColumnLists :
        storage = <<[name |-> "t", columns |-> cols], TableU>>
    /\ dropColumnSupported \in BOOLEAN
    /\ \E t \in {<<>>} \cup {<<x>> : x \in LiveTables}, k \in 0..MaxBackups :
        db = [n \in (IF t = <<>> THEN {} ELSE {"t"}) \cup BackupNames(k) \cup {"u"} |->
                CASE n = "t" -> t[1]
                  [] n = "u" -> [columns |-> LiveColumns(TableU.columns),
                                 rows |-> Rows(TableU.columns, 1)]
                  [] OTHER -> LeftOver]
    /\ pc = "idle"
    /\ mode = "none"
    /\ preserve = FALSE
    /\ idx = 1
    /\ stmts = <<>>
    /\ last = NoLast
    /\ result = <<>>
    /\ log = <<>>
    /\ err = "none"
    /\ startDb = db
    /\ prev = NoCall
    /\ calls = 0

\* ------------------------------------------------------------- actions
\* No call is in progress and none has thrown: an exception out of sync_schema ends
\* the behaviour, and what a later call would find is among the initial states.
Finished == pc \in {"idle", "done"}

\* The part every call starts with: a connection, an empty result map.
StartCall(m, p) ==
    /\ Finished
    /\ calls < MaxCalls
    /\ calls' = calls + 1
    /\ prev' = [mode |-> mode, preserve |-> preserve, pc |-> pc, result |-> result,
                 acted |-> log # <<>>]
    /\ mode' = m
    /\ preserve' = p
    /\ startDb' = db
    /\ log' = <<>>
    /\ stmts' = <<>>
    /\ last' = NoLast
    /\ UNCHANGED <<migrations, user_version, migrateCall, storage, dropColumnSupported>>

\* sync_schema(preserve): for_each starts at the first declared table.
SyncSchema(p) ==
    /\ StartCall("sync", p)
    /\ pc' = "sync_table"
    /\ idx' = 1
    /\ result' = <<>>
    /\ err' = "none"
    /\ UNCHANGED db

\* result.insert({name, res}) and the step of for_each to the next table.
TableDone(name, res) ==
    /\ result' = (name :> res) @@ result
    /\ idx' = idx + 1
    /\ pc' = "sync_table"

\* sync_table up to its first statement: schema_status and the choice of plan.
SyncTable ==
    /\ pc = "sync_table"
    /\ idx <= Len(storage)
    /\ LET tImpl == storage[idx]
           schema_stat == schema_status(tImpl, db, preserve)
           plan == ActionPlan(tImpl, db, preserve)
           todo == PlanStatements(tImpl, db, plan)
       IN /\ last' = [table |-> tImpl.name,
                      existed |-> table_exists(db, tImpl.name),
                      live |-> table_xinfo(db, tImpl.name),
                      tables |-> DOMAIN db,
                      res |-> schema_stat.res,
                      attempt_to_preserve |-> schema_stat.attempt_to_preserve,
                      plan |-> plan]
          /\ stmts' = todo
          /\ IF todo = <<>>
             THEN TableDone(tImpl.name, schema_stat.res)
             ELSE /\ pc' = "exec"
                  /\ UNCHANGED <<result, idx>>
    /\ UNCHANGED <<migrations, user_version, migrateCall, storage, dropColumnSupported, db, mode, preserve, log, err,
                   startDb, prev, calls>>

\* perform_void_exec of the next statement of the plan, accepted by the database.
ExecuteHead ==
    /\ Accepts(db, Head(stmts))
    /\ db' = Execute(db, Head(stmts))
    /\ log' = Append(log, Head(stmts))
    /\ stmts' = Tail(stmts)
    /\ IF Tail(stmts) = <<>>
       THEN TableDone(last.table, last.res)
       ELSE UNCHANGED <<result, idx, pc>>
    /\ UNCHANGED <<migrations, user_version, migrateCall, storage, dropColumnSupported, mode, preserve, last, err,
                   startDb, prev, calls>>

Executing(op) == pc = "exec" /\ stmts # <<>> /\ Head(stmts).op = op

ExecCreateTable ==
    /\ Executing("create_table")
    /\ ExecuteHead

ExecCopyTable ==
    /\ Executing("copy_table")
    /\ ExecuteHead

ExecDropTable ==
    /\ Executing("drop_table")
    /\ ExecuteHead

ExecRenameTable ==
    /\ Executing("rename_table")
    /\ ExecuteHead

ExecAddColumn ==
    /\ Executing("add_column")
    /\ ExecuteHead

ExecDropColumn ==
    /\ Executing("drop_column")
    /\ ExecuteHead

\* Mutant: the error of the statement is caught and the plan goes on.
StatementFailsSwallowed ==
    /\ pc = "exec"
    /\ stmts # <<>>
    /\ err' = "db_error"
    /\ stmts' = Tail(stmts)
    /\ IF Tail(stmts) = <<>>
       THEN TableDone(last.table, last.res)
       ELSE UNCHANGED <<result, idx, pc>>
    /\ UNCHANGED <<migrations, user_version, migrateCall, storage, dropColumnSupported, db, mode, preserve, last, log,
                   startDb, prev, calls>>

\* Mutant: the statement that failed is tried again.
StatementFailsRetried ==
    /\ pc = "exec"
    /\ stmts # <<>>
    /\ UNCHANGED vars

\* The statement throws: the database rejects it, or the round trip fails.
StatementFails ==
    /\ pc = "exec"
    /\ stmts # <<>>
    /\ pc' = "error"
    /\ err' = "db_error"
    /\ UNCHANGED <<migrations, user_version, migrateCall, storage, dropColumnSupported, db, mode, preserve, idx, stmts, last,
                   result, log, startDb, prev, calls>>

\* pragma.table_xinfo or table_exists throws inside schema_status.
IntrospectionFails ==
    /\ pc = "sync_table"
    /\ idx <= Len(storage)
    /\ pc' = "error"
    /\ err' = "introspection"
    /\ UNCHANGED <<migrations, user_version, migrateCall, storage, dropColumnSupported, db, mode, preserve, idx, stmts, last,
                   result, log, startDb, prev, calls>>

\* for_each is over: sync_schema returns the map.
SyncSchemaReturn ==
    /\ pc = "sync_table"
    /\ idx > Len(storage)
    /\ pc' = "done"
    /\ UNCHANGED <<migrations, user_version, migrateCall, storage, dropColumnSupported, db, mode, preserve, idx, stmts, last,
                   result, log, err, startDb, prev, calls>>

\* The map sync_schema_simulate builds: schema_status of every declared table.
SimulatedResult(d, p) ==
    [n \in {storage[i].name : i \in 1..Len(storage)} |->
        schema_status(storage[CHOOSE i \in 1..Len(storage) : storage[i].name = n],
                      d, p).res]

\* Mutant: schema_status is called with preserve = false.
SyncSchemaSimulateWithoutPreserve(p) ==
    /\ StartCall("simulate", p)
    /\ result' = SimulatedResult(db, FALSE)
    /\ idx' = Len(storage) + 1
    /\ pc' = "done"
    /\ err' = "none"
    /\ UNCHANGED db

\* Mutant: the call goes through sync_table instead of schema_status.
SyncSchemaSimulateApplying(p) ==
    /\ StartCall("simulate", p)
    /\ pc' = "sync_table"
    /\ idx' = 1
    /\ result' = <<>>
    /\ err' = "none"
    /\ UNCHANGED db

\* sync_schema_simulate(preserve).
SyncSchemaSimulate(p) ==
    /\ StartCall("simulate", p)
    /\ result' = SimulatedResult(db, p)
    /\ idx' = Len(storage) + 1
    /\ pc' = "done"
    /\ err' = "none"
    /\ UNCHANGED db

\* sync_schema_simulate(preserve) when introspection throws.
SyncSchemaSimulateFails(p) ==
    /\ StartCall("simulate", p)
    /\ result' = <<>>
    /\ idx' = 1
    /\ pc' = "error"
    /\ err' = "introspection"
    /\ UNCHANGED db

Next ==
    \/ \E p \in BOOLEAN : SyncSchema(p)
    \/ SyncTable
    \/ ExecCreateTable
    \/ ExecCopyTable
    \/ ExecDropTable
    \/ ExecRenameTable
    \/ ExecAddColumn
    \/ ExecDropColumn
    \/ StatementFails
    \/ IntrospectionFails
    \/ SyncSchemaReturn
    \/ \E p \in BOOLEAN : SyncSchemaSimulate(p)
    \/ \E p \in BOOLEAN : SyncSchemaSimulateFails(p)

Spec == Init /\ [][Next]_vars

\* A step of the call in progress: every statement and every introspection is a
\* blocking round trip that returns, by a result or by an exception.
CallStep ==
    \/ SyncTable
    \/ ExecCreateTable
    \/ ExecCopyTable
    \/ ExecDropTable
    \/ ExecRenameTable
    \/ ExecAddColumn
    \/ ExecDropColumn
    \/ StatementFails
    \/ IntrospectionFails
    \/ SyncSchemaReturn

\* The initial states with table t declared as id and one ordinary column a,
\* MaxRows rows in it, and either no backup name taken or MaxBackups of them:
\* over the live column lists they give every kind of plan.
TerminationInit ==
    /\ Init
    /\ storage[1].columns = <<IdColumn, Kind("plain", "a")>>
    /\ "t" \in DOMAIN db => Len(db["t"].rows) = MaxRows
    /\ Cardinality(DOMAIN db \ {"t", "u"}) \in {0, MaxBackups}

\* The calls with every round trip returning.
FairSpec == TerminationInit /\ [][Next]_vars /\ WF_vars(CallStep)

\* ----------------------------------------------------------- migrations
Versions == 0..MaxVersion

\* migration_key{from, to}
migration_key(from, to) == <<from, to>>

\* What a registered migration_t does when invoked: "bump" sets user_version to
\* the version it migrates to, "keep" leaves user_version alone.
MigrationKinds == {"bump", "keep"}

\* A storage with nothing to synchronise, a database at any version, no migration
\* registered.
MigrationInit ==
    /\ migrations = <<>>
    /\ user_version \in Versions
    /\ migrateCall = NoMigrate
    /\ storage = <<TableU>>
    /\ dropColumnSupported = TRUE
    /\ db = [n \in {"u"} |-> [columns |-> LiveColumns(TableU.columns),
                              rows |-> Rows(TableU.columns, 1)]]
    /\ pc = "idle"
    /\ mode = "none"
    /\ preserve = FALSE
    /\ idx = 1
    /\ stmts = <<>>
    /\ last = NoLast
    /\ result = <<>>
    /\ log = <<>>
    /\ err = "none"
    /\ startDb = db
    /\ prev = NoCall
    /\ calls = 0

syncvars == <<storage, dropColumnSupported, db, pc, mode, preserve, idx, stmts, last,
              result, log, err, startDb, prev, calls>>

\* register_migration(from, to, migration): migrations[key] = migration.
RegisterMigration(from, to, migration) ==
    /\ \/ migration_key(from, to) \in DOMAIN migrations
       \/ Cardinality(DOMAIN migrations) < MaxMigrations
    /\ migrations' = [k \in DOMAIN migrations \cup {migration_key(from, to)} |->
                        IF k = migration_key(from, to) THEN migration
                        ELSE migrations[k]]
    /\ UNCHANGED <<user_version, migrateCall, syncvars>>

\* Mutant: the migration is looked up by the version it leads to, whatever
\* version it starts from.
MigrateToAnyFrom(to) ==
    /\ \E key \in DOMAIN migrations :
        /\ key[2] = to
        /\ migrateCall' = [to |-> to, currentVersion |-> user_version,
                            invoked |-> <<[key |-> key, migration |-> migrations[key]]>>,
                            err |-> "none"]
        /\ user_version' = IF migrations[key] = "bump" THEN key[2] ELSE user_version
    /\ UNCHANGED <<migrations, syncvars>>

\* migrate_to(to) when migrations.find(key) finds the key: the migration is invoked.
MigrateTo(to) ==
    /\ LET currentVersion == user_version
           key == migration_key(currentVersion, to)
       IN /\ key \in DOMAIN migrations
          /\ migrateCall' = [to |-> to, currentVersion |-> currentVersion,
                              invoked |-> <<[key |-> key, migration |-> migrations[key]]>>,
                              err |-> "none"]
          /\ user_version' = IF migrations[key] = "bump" THEN to ELSE user_version
    /\ UNCHANGED <<migrations, syncvars>>

\* migrate_to(to) when the key is not registered: migration_not_found is thrown.
MigrateToNotFound(to) ==
    /\ LET currentVersion == user_version
           key == migration_key(currentVersion, to)
       IN /\ key \notin DOMAIN migrations
          /\ migrateCall' = [to |-> to, currentVersion |-> currentVersion,
                              invoked |-> <<>>, err |-> "migration_not_found"]
    /\ UNCHANGED <<migrations, user_version, syncvars>>

MigrationNext ==
    \/ \E from \in Versions, to \in Versions, migration \in MigrationKinds :
            RegisterMigration(from, to, migration)
    \/ \E to \in Versions : MigrateTo(to)
    \/ \E to \in Versions : MigrateToNotFound(to)

MigrationSpec == MigrationInit /\ [][MigrationNext]_vars

\* ---------------------------------------------------------- properties
DeclaredNames == {storage[i].name : i \in 1..Len(storage)}

Declared(n) == storage[CHOOSE i \in 1..Len(storage) : storage[i].name = n]

\* What the declaration and the database are compared by.
Props(c) ==
    [name |-> c.name, type |-> c.type, notnull |-> c.notnull,
     has_default |-> c.dflt_value # "", primary_key |-> c.pk # 0]

SameColumns(declared, live) ==
    {Props(c) : c \in Range(declared)} = {Props(c) : c \in Range(live)}

\* The statement names table n as the table it changes or writes.
Touches(s, n) ==
    \/ s.table = n /\ s.op # "copy_table"
    \/ s.op \in {"rename_table", "copy_table"} /\ s.to = n

\* Before the i-th statement of the call, the rows of the table it names were
\* copied out of it.
CopiedBefore(i) ==
    \E j \in 1..(i - 1) : log[j].op = "copy_table" /\ log[j].table = log[i].table

PlanKinds(plan) == [k \in 1..Len(plan) |-> plan[k].kind]

\* The declaration adds to the live columns a column that is not generated, is
\* not_null and has no default.
AddsNotNullWithoutDefault(tImpl, live) ==
    \E c \in Range(tImpl.columns) :
        /\ c.name \notin Names(live)
        /\ c.generated = "none"
        /\ c.notnull
        /\ c.dflt_value = ""

\* C1 as stated: under preserve = true every DROP TABLE of the call comes after a
\* copy of that table's rows, so no table is recreated with loss.
C1_PreserveNeverLoses ==
    (mode = "sync" /\ preserve) =>
        \A i \in 1..Len(log) : log[i].op = "drop_table" => CopiedBefore(i)

\* C1 amended: under preserve = true a table is recreated with loss only when its
\* declaration adds a non-generated not_null column without default; every other
\* DROP TABLE of the call comes after a copy of that table's rows.
C1_PreserveLosesOnlyForNotNullColumn ==
    (mode = "sync" /\ preserve) =>
        \A i \in 1..Len(log) :
            log[i].op = "drop_table" =>
                \/ CopiedBefore(i)
                \/ AddsNotNullWithoutDefault(Declared(log[i].table),
                                             table_xinfo(startDb, log[i].table))

\* A preserving call dropped a table that had rows, after copying them.
C1_Witness ==
    /\ mode = "sync"
    /\ preserve
    /\ pc = "done"
    /\ \E i \in 1..Len(log) :
        /\ log[i].op = "drop_table"
        /\ CopiedBefore(i)
        /\ startDb[log[i].table].rows # <<>>

\* C2: when sync_schema has returned, every declared table exists and its live
\* columns are the declared ones: nothing to add, nothing extraneous, nothing
\* incompatible.
C2_SyncedAfterReturn ==
    (mode = "sync" /\ pc = "done") =>
        \A n \in DeclaredNames :
            /\ table_exists(db, n)
            /\ SameColumns(Declared(n).columns, db[n].columns)
            /\ LET calc == calculate_remove_add_columns(get_table_info(Declared(n)),
                                                        table_xinfo(db, n))
               IN ~calc.notEqual /\ calc.columnsToAdd = <<>> /\ calc.dbTableInfo = <<>>

\* sync_schema returned after changing a table that did not match.
C2_Witness ==
    /\ mode = "sync"
    /\ pc = "done"
    /\ log # <<>>
    /\ table_exists(startDb, "t")
    /\ ~SameColumns(Declared("t").columns, startDb["t"].columns)

\* C3: a sync_schema that returns right after a sync_schema with the same preserve
\* returned reports already_in_sync for every declared table.
C3_SecondRunInSync ==
    (/\ mode = "sync" /\ pc = "done"
     /\ prev.mode = "sync" /\ prev.pc = "done" /\ prev.preserve = preserve) =>
        /\ DOMAIN result = DeclaredNames
        /\ \A n \in DeclaredNames : result[n] = already_in_sync

\* The second of two runs returned, and the first had changed the database.
C3_Witness ==
    /\ mode = "sync" /\ pc = "done"
    /\ prev.mode = "sync" /\ prev.pc = "done" /\ prev.preserve = preserve
    /\ prev.acted

\* C4: the map sync_schema returns is the map sync_schema_simulate gives from the
\* live state the call started in: the one a simulate call returned just before,
\* and the one computed from the starting state.
C4_SimulateAgreesWithSync ==
    (mode = "sync" /\ pc = "done") =>
        /\ result = SimulatedResult(startDb, preserve)
        /\ (prev.mode = "simulate" /\ prev.pc = "done" /\ prev.preserve = preserve)
            => result = prev.result

\* sync_schema returned after a simulate call of the same preserve, having changed
\* table t.
C4_Witness ==
    /\ mode = "sync" /\ pc = "done"
    /\ prev.mode = "simulate" /\ prev.pc = "done" /\ prev.preserve = preserve
    /\ result["t"] # already_in_sync

\* C5: a sync_schema_simulate call leaves the database as it found it, executes no
\* statement, and fails only through introspection.
C5_SimulateHasNoEffect ==
    mode = "simulate" =>
        /\ db = startDb
        /\ log = <<>>
        /\ pc = "error" => err = "introspection"

\* A simulate call reported that a table would be changed.
C5_Witness ==
    /\ mode = "simulate"
    /\ pc = "done"
    /\ result["t"] \notin {already_in_sync}

\* ------------------------------------------------- planner properties
\* schema_status and sync_table have decided for a table of the current call.
Planned == mode = "sync" /\ last.table # ""

ToAdd(tImpl, live) == Names(tImpl.columns) \ Names(live)

Extraneous(tImpl, live) == Names(live) \ Names(tImpl.columns)

Incompatible(tImpl, live) ==
    \E c \in Range(tImpl.columns), l \in Range(live) :
        c.name = l.name /\ Props(c) # Props(l)

\* An existing table without incompatible column, with extraneous columns and
\* nothing to add.
OnlyExtraneous ==
    /\ Planned
    /\ last.existed
    /\ ~Incompatible(Declared(last.table), last.live)
    /\ Extraneous(Declared(last.table), last.live) # {}
    /\ ToAdd(Declared(last.table), last.live) = {}

\* C6: for a declared table that does not exist the planner yields
\* new_table_created and the plan Create, whatever preserve, the drop-column
\* capability and the declared columns are.
C6_MissingTableIsCreated ==
    /\ (Planned /\ ~last.existed) =>
            last.res = new_table_created /\ last.plan = <<Create>>
    /\ \A n \in DeclaredNames, p \in BOOLEAN :
            ~table_exists(db, n) =>
                /\ schema_status(Declared(n), db, p).res = new_table_created
                /\ ActionPlan(Declared(n), db, p) = <<Create>>

\* A missing table whose declaration has a stored generated column or a not_null
\* column without default was planned and created.
C6_Witness ==
    /\ Planned
    /\ ~last.existed
    /\ \E c \in Range(Declared(last.table).columns) :
            c.generated = "stored" \/ (c.pk = 0 /\ c.notnull /\ c.dflt_value = "")
    /\ \E i \in 1..Len(log) : log[i].op = "create_table" /\ log[i].table = last.table

\* C7: for an existing table whose live columns are the declared ones the diff is
\* empty, the planner yields already_in_sync with an empty plan, and the call
\* executes no statement on the table.
C7_EqualColumnsAreInSync ==
    (/\ Planned
     /\ last.existed
     /\ SameColumns(Declared(last.table).columns, last.live)) =>
        /\ LET calc == calculate_remove_add_columns(
                            get_table_info(Declared(last.table)), last.live)
           IN ~calc.notEqual /\ calc.columnsToAdd = <<>> /\ calc.dbTableInfo = <<>>
        /\ last.res = already_in_sync
        /\ last.plan = <<>>
        /\ \A i \in 1..Len(log) : ~Touches(log[i], last.table)
        /\ db[last.table] = startDb[last.table]

\* Table t, of more than one column, matched its declaration when planned.
C7_Witness ==
    /\ Planned
    /\ last.table = "t"
    /\ last.existed
    /\ SameColumns(Declared("t").columns, last.live)
    /\ Len(last.live) > 1
    /\ "t" \in DOMAIN result
    /\ result["t"] = already_in_sync

\* C8: for an existing table with an incompatible column the outcome is
\* dropped_and_recreated, by RecreateWithBackup under preserve = true and by
\* RecreateWithLoss under preserve = false, whatever is to add or extraneous.
C8_IncompatibleIsRecreated ==
    (/\ Planned
     /\ last.existed
     /\ Incompatible(Declared(last.table), last.live)) =>
        /\ last.res = dropped_and_recreated
        /\ PlanKinds(last.plan) =
                <<IF preserve THEN "RecreateWithBackup" ELSE "RecreateWithLoss">>

\* An incompatible table with a column to add and an extraneous column was
\* recreated with backup.
C8_Witness ==
    /\ Planned
    /\ last.existed
    /\ Incompatible(Declared(last.table), last.live)
    /\ ToAdd(Declared(last.table), last.live) # {}
    /\ Extraneous(Declared(last.table), last.live) # {}
    /\ preserve
    /\ \E i \in 1..Len(log) : log[i].op = "rename_table" /\ log[i].to = last.table

\* C9: extraneous columns only, preserve = false: with the drop-column capability
\* old_columns_removed by DropColumns of the extraneous names, without it
\* dropped_and_recreated by RecreateWithLoss.
C9_ExtraneousWithoutPreserve ==
    (OnlyExtraneous /\ ~preserve) =>
        IF dropColumnSupported
        THEN /\ last.res = old_columns_removed
             /\ last.plan =
                    <<DropColumns(Extraneous(Declared(last.table), last.live))>>
        ELSE /\ last.res = dropped_and_recreated
             /\ last.plan = <<RecreateWithLoss>>

\* An extraneous column was dropped in place.
C9_Witness ==
    /\ OnlyExtraneous
    /\ ~preserve
    /\ dropColumnSupported
    /\ \E i \in 1..Len(log) : log[i].op = "drop_column" /\ log[i].table = last.table

\* C10: extraneous columns only, preserve = true: old_columns_removed by
\* RecreateWithBackup ignoring the extraneous names, with or without the
\* drop-column capability, and no DROP COLUMN on the table.
C10_ExtraneousWithPreserve ==
    (OnlyExtraneous /\ preserve) =>
        /\ last.res = old_columns_removed
        /\ last.plan =
                <<RecreateWithBackup(Extraneous(Declared(last.table), last.live))>>
        /\ \A i \in 1..Len(log) :
                ~(log[i].op = "drop_column" /\ log[i].table = last.table)

\* With the drop-column capability, a table with an extraneous column was copied,
\* dropped and the copy renamed.
C10_Witness ==
    /\ OnlyExtraneous
    /\ preserve
    /\ dropColumnSupported
    /\ \E i \in 1..Len(log) : log[i].op = "rename_table" /\ log[i].to = last.table

\* ------------------------------------------------- columns to add
\* The declared columns without live counterpart, in declaration order.
ToAddColumns(tImpl, live) ==
    SelectSeq(tImpl.columns, LAMBDA c : c.name \notin Names(live))

\* A column ALTER TABLE ADD COLUMN can append: virtual-generated, or not generated
\* and nullable or with a default.
Appendable(c) ==
    \/ c.generated = "virtual"
    \/ c.generated = "none" /\ (~c.notnull \/ c.dflt_value # "")

\* An existing table without incompatible and without extraneous column, to which
\* the declaration adds columns that are all appendable.
OnlyAppendable ==
    /\ Planned
    /\ last.existed
    /\ ~Incompatible(Declared(last.table), last.live)
    /\ Extraneous(Declared(last.table), last.live) = {}
    /\ ToAdd(Declared(last.table), last.live) # {}
    /\ \A c \in Range(ToAddColumns(Declared(last.table), last.live)) : Appendable(c)

\* C11: an existing table with nothing incompatible, nothing extraneous and only
\* appendable columns to add gets new_columns_added by AddColumns of the columns to
\* add, under either preserve, and no DROP TABLE of it is executed or pending.
C11_AppendableColumnsAreAdded ==
    OnlyAppendable =>
        /\ last.res = new_columns_added
        /\ last.plan = <<AddColumns(ToAdd(Declared(last.table), last.live))>>
        /\ \A i \in 1..Len(log) :
                ~(log[i].op = "drop_table" /\ log[i].table = last.table)
        /\ \A i \in 1..Len(stmts) : stmts[i].op = "add_column"
        /\ last.table \in DOMAIN db
        /\ db[last.table].rows # <<>> \/ startDb[last.table].rows = <<>>

\* Under preserve = true a virtual column and a defaulted not_null column were
\* appended, one after the other, to a table that had a row.
C11_Witness ==
    /\ OnlyAppendable
    /\ preserve
    /\ startDb[last.table].rows # <<>>
    /\ last.table \in DOMAIN result
    /\ result[last.table] = new_columns_added
    /\ Len(log) = 2
    /\ log[1].op = "add_column" /\ log[1].column.generated = "virtual"
    /\ log[2].op = "add_column" /\ log[2].column.notnull

\* The columns to add that cannot be appended, in declaration order.
NotAppendable(tImpl, live) ==
    SelectSeq(ToAddColumns(tImpl, live), LAMBDA c : ~Appendable(c))

\* Step 5 is reached: the table exists, nothing is incompatible and the extraneous
\* columns, if any, did not force recreation.
ReachesToAdd ==
    /\ Planned
    /\ last.existed
    /\ ~Incompatible(Declared(last.table), last.live)
    /\ ~(/\ Extraneous(Declared(last.table), last.live) # {}
         /\ ~preserve
         /\ ~dropColumnSupported)

\* The first column of to_add that cannot be appended is of the given generated
\* storage type ("none": not generated, so not_null without default).
FirstNotAppendableIs(gen) ==
    /\ NotAppendable(Declared(last.table), last.live) # <<>>
    /\ Head(NotAppendable(Declared(last.table), last.live)).generated = gen

\* The rows the table had when the call started are there, with their values in
\* the columns the table had then and has now.
RowsSurvive(n) ==
    /\ n \in DOMAIN db
    /\ Len(db[n].rows) = Len(startDb[n].rows)
    /\ \A i \in 1..Len(startDb[n].rows) :
        \A c \in Names(startDb[n].columns) \cap Names(db[n].columns) :
            db[n].rows[i][c] = startDb[n].rows[i][c]

\* C12 as stated: a not_null column without default added to an existing table
\* gives dropped_and_recreated under either preserve, and under preserve = true the
\* plan is RecreateWithBackup and the rows survive in the other common columns.
C12_NotNullColumnKeepsRows ==
    (/\ Planned
     /\ last.existed
     /\ AddsNotNullWithoutDefault(Declared(last.table), last.live)) =>
        /\ last.res = dropped_and_recreated
        /\ preserve =>
            /\ PlanKinds(last.plan) = <<"RecreateWithBackup">>
            /\ last.table \in DOMAIN result => RowsSurvive(last.table)

\* C12 amended: a not_null column without default added to an existing table gives
\* dropped_and_recreated under either preserve; under preserve = true the plan is
\* RecreateWithLoss and the recreated table is empty when that column is what
\* forces the recreation (nothing incompatible, no stored generated column before
\* it in to_add), and RecreateWithBackup otherwise.
C12_NotNullColumnLosesRows ==
    (/\ Planned
     /\ last.existed
     /\ AddsNotNullWithoutDefault(Declared(last.table), last.live)) =>
        /\ last.res = dropped_and_recreated
        /\ preserve =>
            IF ReachesToAdd /\ FirstNotAppendableIs("none")
            THEN /\ last.plan = <<RecreateWithLoss>>
                 /\ last.table \in DOMAIN result => db[last.table].rows = <<>>
            ELSE PlanKinds(last.plan) = <<"RecreateWithBackup">>

\* Under preserve = true a table that had a row was recreated, empty, because the
\* declaration adds a not_null column without default.
C12_Witness ==
    /\ Planned
    /\ last.existed
    /\ preserve
    /\ AddsNotNullWithoutDefault(Declared(last.table), last.live)
    /\ startDb[last.table].rows # <<>>
    /\ last.table \in DOMAIN result
    /\ db[last.table].rows = <<>>
    /\ \E i \in 1..Len(log) : log[i].op = "create_table" /\ log[i].table = last.table

ReasonToRecreate ==
    /\ Planned
    /\ last.existed
    /\ \/ Incompatible(Declared(last.table), last.live)
       \/ /\ Extraneous(Declared(last.table), last.live) # {}
          /\ ~preserve
          /\ ~dropColumnSupported
       \/ NotAppendable(Declared(last.table), last.live) # <<>>

\* C15: with a reason to recreate, the outcome is dropped_and_recreated, the plan
\* is RecreateWithLoss or RecreateWithBackup alone, old_columns_removed is not what
\* is reported, and no ADD COLUMN or DROP COLUMN on the table is executed or pending.
C15_RecreationDominates ==
    ReasonToRecreate =>
        /\ last.res = dropped_and_recreated
        /\ Len(last.plan) = 1
        /\ last.plan[1].kind \in {"RecreateWithLoss", "RecreateWithBackup"}
        /\ last.table \in DOMAIN result => result[last.table] = dropped_and_recreated
        /\ \A i \in 1..Len(log) :
                ~(log[i].op \in {"add_column", "drop_column"} /\ log[i].table = last.table)
        /\ \A i \in 1..Len(stmts) : stmts[i].op \notin {"add_column", "drop_column"}

\* With the drop-column capability and preserve = false, a table with an extraneous
\* column, an appendable column to add and then one that cannot be appended was
\* dropped and created again.
C15_Witness ==
    /\ ReasonToRecreate
    /\ ~Incompatible(Declared(last.table), last.live)
    /\ Extraneous(Declared(last.table), last.live) # {}
    /\ ~preserve
    /\ dropColumnSupported
    /\ Appendable(Head(ToAddColumns(Declared(last.table), last.live)))
    /\ last.table \in DOMAIN result
    /\ \E i \in 1..Len(log) : log[i].op = "create_table" /\ log[i].table = last.table

\* ------------------------------------------------- backup properties
\* The k-th name of the sequence <table>_backup, <table>_backup1, ...
Candidate(n, k) == IF k = 0 THEN n \o "_backup" ELSE n \o "_backup" \o ToString(k)

\* The statements issued or still to issue for the planned table.
Issued == log \o stmts

\* The planned table is recreated through a backup table.
PlansBackup ==
    /\ Planned
    /\ \E k \in 1..Len(last.plan) : last.plan[k].kind = "RecreateWithBackup"

\* The names the plan of the planned table renames to the table's name.
SelectedNames ==
    {Issued[i].table : i \in {j \in 1..Len(Issued) :
        Issued[j].op = "rename_table" /\ Issued[j].to = last.table}}

\* C16: the backup name a recreation with backup uses is the first name of the
\* sequence <table>_backup, <table>_backup1, <table>_backup2, ... that was no table
\* when the plan was made: every earlier name of the sequence was a table, the
\* selected one was not.
C16_FirstFreeBackupName ==
    PlansBackup =>
        /\ Cardinality(SelectedNames) = 1
        /\ \A n \in SelectedNames :
            /\ n \notin last.tables
            /\ \E k \in 0..Cardinality(last.tables) :
                /\ n = Candidate(last.table, k)
                /\ \A j \in 0..(k - 1) : Candidate(last.table, j) \in last.tables
            /\ \A i \in 1..Len(Issued) :
                /\ Issued[i].op = "copy_table" => Issued[i].to = n
                /\ Issued[i].op = "create_table" => Issued[i].table = n

\* With t_backup and t_backup1 in the database, table t went through t_backup2.
C16_Witness ==
    /\ PlansBackup
    /\ last.table = "t"
    /\ {"t_backup", "t_backup1"} \subseteq last.tables
    /\ SelectedNames = {"t_backup2"}
    /\ \E i \in 1..Len(log) : log[i].op = "rename_table" /\ log[i].table = "t_backup2"

\* The call threw at a statement of the given kind.
FailedAt(op) ==
    /\ mode = "sync"
    /\ pc = "error"
    /\ err = "db_error"
    /\ stmts # <<>>
    /\ Head(stmts).op = op

\* The columns whose values a backup of table n carries over: in the table and in
\* its declaration with the same properties, generated on neither side.
Carried(n) ==
    {c.name : c \in {x \in Range(Declared(n).columns) :
        /\ x.generated = "none"
        /\ \E l \in Range(startDb[n].columns) :
                l.name = x.name /\ l.hidden = 0 /\ Props(l) = Props(x)}}

\* Table b holds the rows table n had when the call started, in the carried
\* columns.
HoldsCopiedRows(b, n) ==
    /\ Len(db[b].rows) = Len(startDb[n].rows)
    /\ \A i \in 1..Len(startDb[n].rows) :
        \A c \in Carried(n) : db[b].rows[i][c] = startDb[n].rows[i][c]

\* C17: when a recreation with backup throws at the rename, after the original
\* was dropped, nothing is rolled back: the call has ended with the database error,
\* no table has the original name, and the backup table is there under its backup
\* name with the copied rows.
C17_NoRollbackAfterDrop ==
    (PlansBackup /\ FailedAt("rename_table") /\ Head(stmts).to = last.table) =>
        /\ log # <<>>
        /\ log[Len(log)] = DropTableStmt(last.table)
        /\ ~table_exists(db, last.table)
        /\ table_exists(db, Head(stmts).table)
        /\ Head(stmts).table # last.table
        /\ SameColumns(Declared(last.table).columns, db[Head(stmts).table].columns)
        /\ HoldsCopiedRows(Head(stmts).table, last.table)
        /\ last.table \notin DOMAIN result

\* The rename of the backup of a table that had a row threw.
C17_Witness ==
    /\ PlansBackup
    /\ FailedAt("rename_table")
    /\ Head(stmts).to = last.table
    /\ startDb[last.table].rows # <<>>
    /\ Carried(last.table) # {}
    /\ ~table_exists(db, last.table)
    /\ db[Head(stmts).table].rows # <<>>

\* ------------------------------------------------- failure properties
\* The database after it executed the statements of s, in order, from d.
RECURSIVE Replay(_, _)
Replay(d, s) == IF s = <<>> THEN d ELSE Replay(Execute(d, Head(s)), Tail(s))

\* One step of a call, seen from the failure of a statement: the step that fails
\* executes nothing and undoes nothing, the call is over with the database error
\* and without an entry for the table, and nothing happens after it.
FailFastStep ==
    /\ (pc = "exec" /\ pc' = "error") =>
            /\ err' = "db_error"
            /\ stmts' = stmts /\ stmts # <<>>
            /\ log' = log
            /\ db' = db
            /\ db' = Replay(startDb, log)
            /\ result' = result
            /\ last.table \notin DOMAIN result
    /\ err' = "db_error" => pc' = "error"
    /\ stmts' # stmts => (pc' # "error" /\ err' = "none")
    /\ pc = "error" => UNCHANGED vars

\* C18: the first statement of a plan that fails ends the plan: the statements
\* after it are not executed and it is not executed again, what the statements
\* before it did stays, and sync_schema ends with the database error instead of
\* returning the map.
C18_FailFast == [][FailFastStep]_vars

\* A statement failed after another of the same plan was executed and with more
\* than itself left to execute.
C18_Witness ==
    /\ mode = "sync"
    /\ pc = "error"
    /\ err = "db_error"
    /\ log # <<>>
    /\ Len(stmts) > 1
    /\ db # startDb
    /\ db = Replay(startDb, log)

\* ------------------------------------------------- frame properties
\* The tables the database had when the call started that are not declared.
ExcessTables == DOMAIN startDb \ DeclaredNames

\* C19: at every point of a sync_schema call, every table that was in the database
\* when the call started and is not declared, a left-over backup table included,
\* is there with the columns and rows it had, and no statement the call executed
\* drops, renames, alters or writes it.
C19_ExcessTablesUntouched ==
    mode = "sync" =>
        \A n \in ExcessTables :
            /\ table_exists(db, n)
            /\ db[n] = startDb[n]
            /\ \A i \in 1..Len(log) : ~Touches(log[i], n)

\* sync_schema returned after recreating t through a backup table, with t_backup
\* and t_backup1 left over from before.
C19_Witness ==
    /\ mode = "sync"
    /\ pc = "done"
    /\ {"t_backup", "t_backup1"} \subseteq ExcessTables
    /\ \E i \in 1..Len(log) : log[i].op = "rename_table" /\ log[i].to = "t"
    /\ \E i \in 1..Len(log) : log[i].op = "drop_table" /\ log[i].table = "t"

\* C20: in a build without the drop-column capability no ALTER TABLE DROP COLUMN is
\* planned, pending or executed by sync_schema, and a table whose extraneous
\* columns the call removed was dropped and made again, with loss or from a backup.
C20_NoDropColumnWithoutCapability ==
    (mode = "sync" /\ ~dropColumnSupported) =>
        /\ \A i \in 1..Len(log) : log[i].op # "drop_column"
        /\ \A i \in 1..Len(stmts) : stmts[i].op # "drop_column"
        /\ \A k \in 1..Len(last.plan) : last.plan[k].kind # "DropColumns"
        /\ (/\ Planned
            /\ last.existed
            /\ Extraneous(Declared(last.table), last.live) # {}
            /\ last.table \in DOMAIN result) =>
                /\ Extraneous(Declared(last.table), db[last.table].columns) = {}
                /\ \E i \in 1..Len(log) :
                        log[i].op = "drop_table" /\ log[i].table = last.table

\* Without the capability and under preserve = false, a table whose only
\* difference was an extraneous column was dropped and created again.
C20_Witness ==
    /\ OnlyExtraneous
    /\ ~dropColumnSupported
    /\ ~preserve
    /\ last.table \in DOMAIN result
    /\ log = drop_create_with_loss(Declared(last.table))

\* ------------------------------------------------- migration properties
\* One step seen from migrate_to: a call invokes the migration registered under the
\* key (user_version, to), once, and nothing else; without that key it throws
\* migration_not_found, invokes nothing and leaves user_version alone.
MigrateToStep ==
    migrateCall' # migrateCall =>
        LET key == migration_key(user_version, migrateCall'.to)
        IN /\ migrateCall'.currentVersion = user_version
           /\ migrations' = migrations
           /\ IF key \in DOMAIN migrations
              THEN /\ migrateCall'.invoked =
                        <<[key |-> key, migration |-> migrations[key]]>>
                   /\ migrateCall'.err = "none"
              ELSE /\ migrateCall'.invoked = <<>>
                   /\ migrateCall'.err = "migration_not_found"
                   /\ user_version' = user_version

\* C21: migrate_to(to) invokes exactly once the migration registered under the key
\* (current user_version, to) and no other, with no chaining through intermediate
\* versions; when that key is not registered it throws migration_not_found and
\* invokes no migration.
C21_MigrateToExactKey == [][MigrateToStep]_vars

\* migrate_to threw migration_not_found although migrations leading from the
\* current version to the requested one through an intermediate version are
\* registered.
C21_Witness ==
    /\ migrateCall.err = "migration_not_found"
    /\ migrateCall.invoked = <<>>
    /\ migrateCall.currentVersion = user_version
    /\ migration_key(user_version, migrateCall.to) \notin DOMAIN migrations
    /\ \E v \in Versions :
        /\ migration_key(user_version, v) \in DOMAIN migrations
        /\ migration_key(v, migrateCall.to) \in DOMAIN migrations

\* ------------------------------------------------- recreation properties
\* The kinds of the first n statements of a recreation with backup.
BackupOrder == <<"create_table", "copy_table", "drop_table", "rename_table">>

\* C22: a recreation with backup executes create backup, copy rows, drop original,
\* rename backup, in that order, each after the one before it was executed: what
\* the call has executed of it is a prefix of that sequence on the selected backup
\* name, and the original is there until its rows were copied.
C22_BackupStepsInOrder ==
    PlansBackup =>
        \A b \in SelectedNames :
            /\ \A i \in 1..Len(log) :
                i <= 4 =>
                    /\ log[i].op = BackupOrder[i]
                    /\ log[i].table = (IF i \in {1, 4} THEN b ELSE last.table)
                    /\ i \in {2, 4} =>
                            log[i].to = (IF i = 2 THEN b ELSE last.table)
            /\ Len(log) < 3 =>
                    /\ table_exists(db, last.table)
                    /\ db[last.table] = startDb[last.table]
            /\ ~table_exists(db, last.table) =>
                    /\ Len(log) = 3
                    /\ table_exists(db, b)
                    /\ Len(db[b].rows) = Len(startDb[last.table].rows)

\* The four steps of a recreation with backup were executed on a table that had a
\* row.
C22_Witness ==
    /\ PlansBackup
    /\ startDb[last.table].rows # <<>>
    /\ Len(log) = 4
    /\ log[4].op = "rename_table"
    /\ last.table \in DOMAIN result

\* Table h holds one row for every row table n had when the call started, with the
\* original value in the carried columns and nothing carried in any other column.
HoldsExactlyCarried(h, n) ==
    /\ Len(db[h].rows) = Len(startDb[n].rows)
    /\ \A i \in 1..Len(startDb[n].rows) :
        \A c \in Names(db[h].columns) :
            IF c \in Carried(n)
            THEN db[h].rows[i][c] = startDb[n].rows[i][c]
            ELSE db[h].rows[i][c] = 0

\* The copy of a recreation with backup of the planned table was executed, and no
\* statement after the rename.
BackupCopied ==
    /\ PlansBackup
    /\ Len(log) \in 2..4
    /\ log[2].op = "copy_table"
    /\ log[2].table = last.table

\* C23: the copy of a recreation with backup carries exactly the columns the live
\* table and the declaration have in common, without the ignored (incompatible,
\* extraneous) and without the generated ones: for every row of the original the
\* backup has one row with the original values in those columns and in no other,
\* and after the rename the table has those rows.
C23_CopyCarriesCommonColumns ==
    BackupCopied =>
        /\ log[2].ignore \cap Carried(last.table) = {}
        /\ Carried(last.table) \subseteq
                (Names(startDb[last.table].columns) \cap Names(Declared(last.table).columns))
                    \ log[2].ignore
        /\ HoldsExactlyCarried(IF Len(log) = 4 THEN last.table ELSE log[2].to,
                               last.table)

\* A table with a row was recreated through a backup table that carried one of
\* its columns and left another of the new columns uncarried.
C23_Witness ==
    /\ BackupCopied
    /\ Len(log) = 4
    /\ last.table \in DOMAIN result
    /\ startDb[last.table].rows # <<>>
    /\ Carried(last.table) # {}
    /\ Names(db[last.table].columns) \ Carried(last.table) # {}
    /\ Extraneous(Declared(last.table), last.live) # {}

\* ------------------------------------------------- composite plan
\* An existing table with nothing incompatible, extraneous columns that step 3 or
\* step 4 classified as old_columns_removed, and only appendable columns to add.
RemovesAndAppends ==
    /\ Planned
    /\ last.existed
    /\ ~Incompatible(Declared(last.table), last.live)
    /\ Extraneous(Declared(last.table), last.live) # {}
    /\ preserve \/ dropColumnSupported
    /\ ToAdd(Declared(last.table), last.live) # {}
    /\ \A c \in Range(ToAddColumns(Declared(last.table), last.live)) : Appendable(c)

\* C24: extraneous columns classified as old_columns_removed together with only
\* appendable columns to add give new_columns_added_and_old_columns_removed, and
\* the plan is the removal already selected (DropColumns under preserve = false,
\* RecreateWithBackup under preserve = true) followed by AddColumns(to_add).
C24_RemovalThenAddColumns ==
    RemovesAndAppends =>
        /\ last.res = new_columns_added_and_old_columns_removed
        /\ last.plan =
            <<IF preserve
              THEN RecreateWithBackup(Extraneous(Declared(last.table), last.live))
              ELSE DropColumns(Extraneous(Declared(last.table), last.live)),
              AddColumns(ToAdd(Declared(last.table), last.live))>>
        /\ \A i \in 1..Len(Issued), j \in 1..Len(Issued) :
                (Issued[i].op = "add_column" /\ Issued[j].op # "add_column") => j < i

\* Under preserve = false an extraneous column was dropped in place and a column
\* was appended after it.
C24_Witness ==
    /\ RemovesAndAppends
    /\ ~preserve
    /\ last.table \in DOMAIN result
    /\ result[last.table] = new_columns_added_and_old_columns_removed
    /\ Len(log) = 2
    /\ log[1].op = "drop_column"
    /\ log[2].op = "add_column"
    /\ SameColumns(Declared(last.table).columns, db[last.table].columns)

\* ------------------------------------------------- classifier properties
\* The diff of the planned table, as schema_status computes it.
PlannedDiff ==
    calculate_remove_add_columns(get_table_info(Declared(last.table)), last.live)

\* A live hidden column whose name is that of a declared generated column.
ExpectedHidden(tImpl, live) ==
    {l \in Range(live) :
        /\ l.hidden # 0
        /\ \E c \in Range(tImpl.columns) : c.name = l.name /\ c.generated # "none"}

\* C25: for an existing table, to_add is exactly the declared columns whose name
\* no live column has, in declaration order, and extraneous exactly the live
\* columns whose name no declared column has; a hidden live column of a declared
\* generated column of the same name is not extraneous, and a table that matches
\* its declaration, such columns included, is already_in_sync with an empty plan.
C25_DiffByName ==
    (Planned /\ last.existed) =>
        LET diff == PlannedDiff
            tImpl == Declared(last.table)
        IN /\ diff.columnsToAdd =
                    get_table_info([name |-> last.table,
                                    columns |-> ToAddColumns(tImpl, last.live)])
           /\ Names(diff.columnsToAdd) = ToAdd(tImpl, last.live)
           /\ diff.dbTableInfo =
                    SelectSeq(last.live, LAMBDA l : l.name \notin Names(tImpl.columns))
           /\ ExpectedHidden(tImpl, last.live) \cap Range(diff.dbTableInfo) = {}
           /\ SameColumns(tImpl.columns, last.live) =>
                    /\ diff.columnsToAdd = <<>>
                    /\ diff.dbTableInfo = <<>>
                    /\ ~diff.notEqual
                    /\ last.res = already_in_sync
                    /\ last.plan = <<>>

\* A table whose generated column is a hidden column of the database matched its
\* declaration and was reported in sync.
C25_Witness ==
    /\ Planned
    /\ last.existed
    /\ ExpectedHidden(Declared(last.table), last.live) # {}
    /\ SameColumns(Declared(last.table).columns, last.live)
    /\ last.table \in DOMAIN result
    /\ result[last.table] = already_in_sync
    /\ log = <<>>

\* C26: RecreateWithLoss is DROP TABLE of the original and then CREATE TABLE of the
\* declaration, with no copy; between the two the table is absent, and after both
\* it exists under its name with exactly the declared columns and no row.
C26_DropThenCreate ==
    (Planned /\ last.plan = <<RecreateWithLoss>>) =>
        /\ Len(Issued) = 2
        /\ Issued[1] = [op |-> "drop_table", table |-> last.table]
        /\ Issued[2] = [op |-> "create_table", table |-> last.table,
                        columns |-> Declared(last.table).columns]
        /\ Len(log) = 1 => ~table_exists(db, last.table)
        /\ Len(log) = 2 =>
                /\ table_exists(db, last.table)
                /\ db[last.table].columns = LiveColumns(Declared(last.table).columns)
                /\ SameColumns(Declared(last.table).columns, db[last.table].columns)
                /\ db[last.table].rows = <<>>
        /\ last.table \in DOMAIN result <=> Len(log) = 2

\* A table that had a row and an incompatible column was dropped and created
\* again under preserve = false.
C26_Witness ==
    /\ Planned
    /\ last.plan = <<RecreateWithLoss>>
    /\ ~preserve
    /\ Incompatible(Declared(last.table), last.live)
    /\ startDb[last.table].rows # <<>>
    /\ Len(log) = 2
    /\ db[last.table].rows = <<>>
    /\ result[last.table] = dropped_and_recreated

\* ------------------------------------------------- termination
\* A sync_schema call is in progress.
InCall == mode = "sync" /\ pc \in {"sync_table", "exec"}

\* The call in progress has returned or thrown.
Ended == pc \in {"done", "error"}

\* The name a recreation with backup selected is found within as many probes as
\* the database has tables, plus one.
ProbesBounded ==
    PlansBackup =>
        \A n \in SelectedNames :
            \E k \in 0..Cardinality(last.tables) : n = Candidate(last.table, k)

\* C27: every sync_schema call ends, by returning or by the first error, when every
\* round trip returns; the backup name is found within finitely many probes; and
\* the map a call returns has one outcome for each declared table.
C27_CallTerminates ==
    /\ InCall ~> Ended
    /\ [](ProbesBounded)
    /\ []((mode = "sync" /\ pc = "done") => DOMAIN result = DeclaredNames)

\* sync_schema returned after it probed past two taken backup names and executed
\* the whole recreation.
C27_Witness ==
    /\ mode = "sync"
    /\ pc = "done"
    /\ DOMAIN result = DeclaredNames
    /\ PlansBackup \/ result["t"] = dropped_and_recreated
    /\ {"t_backup", "t_backup1"} \subseteq DOMAIN startDb
    /\ \E i \in 1..Len(log) : log[i].op = "rename_table" /\ log[i].table = "t_backup2"

\* ------------------------------------------------- outcome soundness
\* The outcome is one the table's state allows: already_in_sync only for a table
\* that exists with no incompatible column, no extraneous column and nothing to
\* add, new_table_created only for a table that does not exist.
SoundOutcome(res, tImpl, existed, live) ==
    /\ res = already_in_sync =>
            /\ existed
            /\ ~Incompatible(tImpl, live)
            /\ Extraneous(tImpl, live) = {}
            /\ ToAdd(tImpl, live) = {}
    /\ res = new_table_created => ~existed

\* C28: schema_status returns already_in_sync only for a table that exists and has
\* no incompatible column, no extraneous column and nothing to add, and
\* new_table_created only for a table that does not exist, for either preserve and
\* either drop-column capability: for the table a call planned and, before the
\* first call, for every declared table against the live state.
C28_OutcomeSoundness ==
    /\ Planned =>
            SoundOutcome(last.res, Declared(last.table), last.existed, last.live)
    /\ pc = "idle" =>
            \A n \in DeclaredNames, p \in BOOLEAN :
                SoundOutcome(schema_status(Declared(n), db, p).res, Declared(n),
                             table_exists(db, n), table_xinfo(db, n))

\* A table with an extraneous column and nothing else wrong was planned under
\* preserve, and reported as changed.
C28_Witness ==
    /\ OnlyExtraneous
    /\ last.table = "t"
    /\ preserve
    /\ last.res = old_columns_removed
    /\ "t" \in DOMAIN result
    /\ result["t"] # already_in_sync

\* ------------------------------------------------- plan executability
\* The statement names tables and columns as the state has them: no CREATE or
\* RENAME onto a table that exists, no statement on a table that is missing, no
\* ADD COLUMN of a column the table has, no DROP COLUMN of one it has not.
ValidIn(d, s) ==
    CASE s.op = "create_table" -> s.table \notin DOMAIN d
      [] s.op = "drop_table" -> s.table \in DOMAIN d
      [] s.op = "rename_table" -> s.table \in DOMAIN d /\ s.to \notin DOMAIN d
      [] s.op = "copy_table" -> s.table \in DOMAIN d /\ s.to \in DOMAIN d
      [] s.op = "add_column" ->
            s.table \in DOMAIN d /\ s.column.name \notin Names(d[s.table].columns)
      [] s.op = "drop_column" ->
            s.table \in DOMAIN d /\ s.column \in Names(d[s.table].columns)

RowHolder(b) ==
    IF Len(log) < 3 \/ Len(log) >= 4 THEN last.table ELSE b

\* C30: in every state of a recreation with backup, the states a statement threw
\* in included, the rows to preserve are in a table: until the original is dropped
\* it exists with its columns and rows unchanged, whether the creation of the
\* backup or the copy threw or not, and from the drop on the backup table, under
\* its name or renamed, holds the copied rows.
C30_RowsHeldThroughout ==
    PlansBackup =>
        \A b \in SelectedNames :
            /\ table_exists(db, RowHolder(b))
            /\ Len(log) < 3 =>
                    /\ db[last.table].columns = startDb[last.table].columns
                    /\ db[last.table].rows = startDb[last.table].rows
            /\ Len(log) >= 2 =>
                    HoldsCopiedRows(IF Len(log) >= 4 THEN last.table ELSE b, last.table)
            /\ (FailedAt("create_table") \/ FailedAt("copy_table")) =>
                    /\ RowHolder(b) = last.table
                    /\ db[last.table] = startDb[last.table]
            /\ (FailedAt("rename_table") \/ Len(log) = 3) =>
                    /\ RowHolder(b) = b
                    /\ ~table_exists(db, last.table)

\* The copy into the backup table of a table that had a row threw, and the
\* original was left as it was next to the empty backup table.
C30_Witness ==
    /\ PlansBackup
    /\ FailedAt("copy_table")
    /\ Head(stmts).table = last.table
    /\ startDb[last.table].rows # <<>>
    /\ table_exists(db, Head(stmts).to)
    /\ db[Head(stmts).to].rows = <<>>
    /\ db[last.table] = startDb[last.table]

====
